---- MODULE Spec2Model ----
(***************************************************************************)
(* A model of ProtoBase's object/transaction core:                         *)
(*   src/proto_base/common.py   ObjectSpace, Database, ObjectTransaction   *)
(*   src/proto_db/common.py     Atom, DBObject, MutableObject              *)
(*                                                                         *)
(* Python values that may be None are modelled as sequences of length 0    *)
(* (None) or 1 (<<x>>).  The indexable collections Dictionary and          *)
(* HashDictionary are not part of the sources; they are modelled as        *)
(* persistent maps (TLA+ functions): set_at and remove_key return a new    *)
(* map and leave the receiver alone, get_at of an absent key is None.      *)
(* Class-definition scaffolding (metaclass, imports) is taken to resolve;  *)
(* method bodies are modelled statement by statement.                      *)
(***************************************************************************)
EXTENDS Integers, Sequences, FiniteSets, TLC

VARIABLES
    root,      \* SharedStorage: the current root, None or <<RootObject>>
    pushed,    \* SharedStorage: the number of atoms handed to push_atom so far
    lock,      \* ObjectSpace._lock: the set of threads inside `with self._lock`
    thr,       \* per thread: the ObjectSpace / Database call it is executing
    branches,  \* names returned by new_branch_database -> origin and its root at the call
    tx,        \* per ObjectTransaction: its fields
    finished,  \* the transactions whose commit() or abort() has returned, in order
    last,      \* the ObjectSpace / Database call that completed last, with its outcome
    lib,       \* which package the atoms are instances of: "proto_base" or "proto_db"
    attrs,     \* per atom: the values of its attributes, in __dict__ order
    atom,      \* per atom: atom_pointer, transaction, _loaded, _saved / _saving
    wal,       \* storage: the forms handed to push_atom, in order
    fetched,   \* storage: the pointers handed to get_atom, in order
    ret        \* the _save / _load call that completed last, with its outcome

atomVars == <<lib, attrs, atom, wal, fetched, ret>>
vars == <<root, pushed, lock, thr, branches, tx, finished, last, atomVars>>

(***************************************************************************)
(* Bounds and input domains                                                *)
(***************************************************************************)
MaxBranches == 1        \* new_branch_database calls that return a handle
MaxPushes == 3          \* catalog operations started while fewer atoms were pushed
MaxFetches == 2         \* get_atom calls recorded for a DBObject

Values == {"v1", "v2"}              \* root objects / slot snapshots
DbNames == {"a", "b"}               \* names given to new_database / rename_database
BranchNames == {"u" \o ToString(i) : i \in 1..MaxBranches}  \* uuid4().hex results
AllNames == DbNames \cup BranchNames
RootNames == {"n"}                  \* names of root objects inside a database
Slots == {"s"}                      \* hash_key values of MutableObjects
Strings == {"x"}                    \* strings handed to get_literal
Threads == {"p", "q"}
TxIds == {"T1", "T2"}

NoneV == <<>>
Some(x) == <<x>>

(***************************************************************************)
(* Dictionary / HashDictionary (external collaborators)                    *)
(***************************************************************************)
EmptyDict == <<>>
Has(d, k) == k \in DOMAIN d
GetAt(d, k) == IF k \in DOMAIN d THEN Some(d[k]) ELSE NoneV
SetAt(d, k, v) == [y \in DOMAIN d \cup {k} |-> IF y = k THEN v ELSE d[y]]
RemoveKey(d, k) == [y \in DOMAIN d \ {k} |-> d[y]]

\* A database root holding root object v under "n" and a mutable-slot table
DbRootOf(v) == SetAt(SetAt(EmptyDict, "n", v), "_mutable_root", SetAt(EmptyDict, "s", v))
\* The roots handed to commit_database
NewRoots == {EmptyDict} \cup {DbRootOf(v) : v \in Values}

\* RootObject() with object_root = Dictionary(), literal_root = Dictionary()
NewRootObject == [object_root |-> EmptyDict, literal_root |-> EmptyDict]

\* The committed catalog: name -> database root (empty when storage has no root)
Catalog == IF root = NoneV THEN EmptyDict ELSE root[1].object_root

(***************************************************************************)
(* Initial state: ObjectSpace(storage) over a storage with no root yet,    *)
(* no call in progress, no transaction opened                              *)
(***************************************************************************)
IdleThread ==
    [pc |-> "idle", op |-> "none", name |-> "", name2 |-> "",
     new_root |-> EmptyDict, rootRead |-> NoneV, bname |-> "", literals |-> <<>>]

NoTx ==
    [status |-> "none", db |-> "",
     initial_transaction_root |-> EmptyDict, transaction_root |-> EmptyDict,
     read_lock_objects |-> EmptyDict,
     mutable_objects |-> NoneV, initial_mutable_root |-> NoneV,
     new_literals |-> EmptyDict,
     began |-> 0, wrote |-> {}, stale |-> FALSE, interned |-> {}]

NoCall == [op |-> "none", name |-> "", result |-> "none"]

Init ==
    /\ root = NoneV
    /\ pushed = 0
    /\ lock = {}
    /\ thr = [th \in Threads |-> IdleThread]
    /\ branches = EmptyDict
    /\ tx = [t \in TxIds |-> NoTx]
    /\ finished = <<>>
    /\ last = NoCall
    /\ lib = "proto_base"
    /\ attrs = <<>>
    /\ atom = <<>>
    /\ wal = <<>>
    /\ fetched = <<>>
    /\ ret = NoCall

(***************************************************************************)
(* ObjectSpace: the bodies of the catalog operations, as functions of the  *)
(* root that storage.read_current_root() returned.  Each gives the root to *)
(* set (set_current_root), the number of atoms saved (_save) and the       *)
(* outcome: what is returned, or the exception raised.                     *)
(***************************************************************************)
Outcome(r, n, res) == [root |-> r, pushes |-> n, result |-> res]

\* open_database without its `if db_catalog.has(database_name)` test
open_database_body_unchecked(rootRead, database_name) ==
    IF rootRead # NoneV
    THEN Outcome(rootRead, 0, "Database")
    ELSE Outcome(rootRead, 0, "ProtoValidationException")

open_database_body(rootRead, database_name) ==
    IF rootRead # NoneV /\ Has(rootRead[1].object_root, database_name)
    THEN Outcome(rootRead, 0, "Database")
    ELSE Outcome(rootRead, 0, "ProtoValidationException")

\* new_database without its `if not db_catalog.has(database_name)` test
new_database_body_unchecked(rootRead, database_name) ==
    LET r == IF rootRead = NoneV THEN NewRootObject ELSE rootRead[1]
        new_db_catalog == SetAt(r.object_root, database_name, EmptyDict)
    IN Outcome(Some([r EXCEPT !.object_root = new_db_catalog]), 1, "Database")

\* new_database entering the name into a new Dictionary() instead of db_catalog
new_database_body_fresh_catalog(rootRead, database_name) ==
    LET r == IF rootRead = NoneV THEN NewRootObject ELSE rootRead[1]
        db_catalog == r.object_root
    IN IF ~Has(db_catalog, database_name)
       THEN LET new_db_catalog == SetAt(EmptyDict, database_name, EmptyDict)
            IN Outcome(Some([r EXCEPT !.object_root = new_db_catalog]), 1, "Database")
       ELSE Outcome(rootRead, 0, "ProtoValidationException")

new_database_body(rootRead, database_name) ==
    LET r == IF rootRead = NoneV THEN NewRootObject ELSE rootRead[1]
        db_catalog == r.object_root
    IN IF ~Has(db_catalog, database_name)
       THEN LET new_db_root == EmptyDict
                new_db_catalog == SetAt(db_catalog, database_name, new_db_root)
            IN Outcome(Some([r EXCEPT !.object_root = new_db_catalog]), 1, "Database")
       ELSE Outcome(rootRead, 0, "ProtoValidationException")

\* the method has no return: the raise after the `if` is reached on every path
rename_database_body(rootRead, old_name, new_name) ==
    IF rootRead # NoneV /\ Has(rootRead[1].object_root, old_name)
    THEN LET r == rootRead[1]
             db_catalog == r.object_root
             database_root == db_catalog[old_name]
             new_db_catalog == SetAt(RemoveKey(db_catalog, old_name), new_name, database_root)
         IN Outcome(Some([r EXCEPT !.object_root = new_db_catalog]), 1,
                    "ProtoValidationException")
    ELSE Outcome(rootRead, 0, "ProtoValidationException")

\* commit_database without its `if db_catalog.has(database_name)` test
commit_database_body_unchecked(rootRead, database_name, new_root) ==
    IF rootRead = NoneV
    THEN Outcome(rootRead, 0, "AttributeError")
    ELSE LET r == rootRead[1]
             new_db_catalog == SetAt(r.object_root, database_name, new_root)
         IN Outcome(Some([r EXCEPT !.object_root = new_db_catalog]), 1, "None")

\* root.object_root of no root is an AttributeError
commit_database_body(rootRead, database_name, new_root) ==
    IF rootRead = NoneV
    THEN Outcome(rootRead, 0, "AttributeError")
    ELSE LET r == rootRead[1]
             db_catalog == r.object_root
         IN IF Has(db_catalog, database_name)
            THEN LET new_db_catalog == SetAt(db_catalog, database_name, new_root)
                 IN Outcome(Some([r EXCEPT !.object_root = new_db_catalog]), 1, "None")
            ELSE Outcome(rootRead, 0, "ProtoValidationException")

\* get_literals(literals): root.literal_root of no root is an AttributeError;
\* a literal the catalog lacks is built with Literal(literal), which raises
\* (its set_at result would be dropped); otherwise the root read is written
\* back with the literal catalog it had
get_literals_body(rootRead, literals) ==
    IF rootRead = NoneV
    THEN Outcome(rootRead, 0, "AttributeError")
    ELSE LET literal_catalog == rootRead[1].literal_root
         IN IF \E i \in DOMAIN literals : ~Has(literal_catalog, literals[i])
            THEN Outcome(rootRead, 0, "ValueError")
            ELSE Outcome(Some([rootRead[1] EXCEPT !.literal_root = literal_catalog]),
                         0, "dict")

\* set_current_root, the pushes of _save, and the call's outcome
Complete(op, name, out) ==
    /\ root' = out.root
    /\ pushed' = pushed + out.pushes
    /\ last' = [op |-> op, name |-> name, result |-> out.result]

\* Database.new_branch_database after its commit_database call: the new
\* Database is returned, an exception of commit_database goes through
BranchOutcome(out) ==
    IF out.result = "None" THEN [out EXCEPT !.result = "Database"] ELSE out

BranchRecord(rootRead, origin) ==
    [origin |-> origin, origin_root |-> rootRead[1].object_root[origin]]

(***************************************************************************)
(* The calls as a thread makes them: the call reaches `with self._lock:`,  *)
(* the lock is taken and read_current_root() read, then the body runs and  *)
(* the lock is released (by return or by exception)                        *)
(***************************************************************************)
Call(th, op, n1, n2, nr, bn) ==
    /\ thr[th].pc = "idle"
    /\ pushed < MaxPushes
    /\ thr' = [thr EXCEPT ![th] =
                 [pc |-> "called", op |-> op, name |-> n1, name2 |-> n2,
                  new_root |-> nr, rootRead |-> NoneV, bname |-> bn,
                  literals |-> <<>>]]
    /\ UNCHANGED <<atomVars, root, pushed, lock, branches, tx, finished, last>>

\* a lock that excludes nobody
CanAcquire_always(th) == TRUE

\* threading.Lock: the lock can be taken only while nobody holds it
CanAcquire(th) == lock = {}

\* the root read without waiting for the lock
lock_and_read_unguarded(th) ==
    /\ thr[th].pc = "called"
    /\ lock' = lock \cup {th}
    /\ thr' = [thr EXCEPT ![th].pc = "locked", ![th].rootRead = root]
    /\ UNCHANGED <<atomVars, root, pushed, branches, tx, finished, last>>

\* `with self._lock:` and `root = self.storage.read_current_root()`
lock_and_read(th) ==
    /\ thr[th].pc = "called"
    /\ CanAcquire(th)
    /\ lock' = lock \cup {th}
    /\ thr' = [thr EXCEPT ![th].pc = "locked", ![th].rootRead = root]
    /\ UNCHANGED <<atomVars, root, pushed, branches, tx, finished, last>>

Unlock(th) ==
    /\ lock' = lock \ {th}
    /\ thr' = [thr EXCEPT ![th] = IdleThread]

InBody(th, op) == thr[th].pc = "locked" /\ thr[th].op = op

open_database_call(th, database_name) ==
    Call(th, "open_database", database_name, "", EmptyDict, "")

open_database_end(th) ==
    /\ InBody(th, "open_database")
    /\ Complete("open_database", thr[th].name,
                open_database_body(thr[th].rootRead, thr[th].name))
    /\ Unlock(th)
    /\ UNCHANGED <<atomVars, branches, tx, finished>>

new_database_call(th, database_name) ==
    Call(th, "new_database", database_name, "", EmptyDict, "")

new_database_end(th) ==
    /\ InBody(th, "new_database")
    /\ Complete("new_database", thr[th].name,
                new_database_body(thr[th].rootRead, thr[th].name))
    /\ Unlock(th)
    /\ UNCHANGED <<atomVars, branches, tx, finished>>

rename_database_call(th, old_name, new_name) ==
    Call(th, "rename_database", old_name, new_name, EmptyDict, "")

rename_database_end(th) ==
    /\ InBody(th, "rename_database")
    /\ Complete("rename_database", thr[th].name,
                rename_database_body(thr[th].rootRead, thr[th].name, thr[th].name2))
    /\ Unlock(th)
    /\ UNCHANGED <<atomVars, branches, tx, finished>>

commit_database_call(th, database_name, new_root) ==
    Call(th, "commit_database", database_name, "", new_root, "")

commit_database_end(th) ==
    /\ InBody(th, "commit_database")
    /\ Complete("commit_database", thr[th].name,
                commit_database_body(thr[th].rootRead, thr[th].name, thr[th].new_root))
    /\ Unlock(th)
    /\ UNCHANGED <<atomVars, branches, tx, finished>>

get_literals_call(th, literals) ==
    /\ thr[th].pc = "idle"
    /\ pushed < MaxPushes
    /\ thr' = [thr EXCEPT ![th] =
                 [IdleThread EXCEPT !.pc = "called", !.op = "get_literals",
                                    !.literals = literals]]
    /\ UNCHANGED <<atomVars, root, pushed, lock, branches, tx, finished, last>>

\* get_literals whose lock is released by a release() after the body, which
\* an exception skips
get_literals_end_leaky(th) ==
    /\ InBody(th, "get_literals")
    /\ LET out == get_literals_body(thr[th].rootRead, thr[th].literals)
       IN /\ Complete("get_literals", "", out)
          /\ lock' = IF out.result = "dict" THEN lock \ {th} ELSE lock
    /\ thr' = [thr EXCEPT ![th] = IdleThread]
    /\ UNCHANGED <<atomVars, branches, tx, finished>>

get_literals_end(th) ==
    /\ InBody(th, "get_literals")
    /\ Complete("get_literals", "",
                get_literals_body(thr[th].rootRead, thr[th].literals))
    /\ Unlock(th)
    /\ UNCHANGED <<atomVars, branches, tx, finished>>

\* Database.new_branch_database up to its call of commit_database: the root
\* is read without the lock (root.object_root of no root is an
\* AttributeError) and a Database is built for a fresh uuid4().hex
new_branch_database_call(th, origin, bn) ==
    /\ bn \notin DOMAIN branches
    /\ \A o \in Threads : thr[o].bname # bn
    /\ IF root = NoneV
       THEN /\ thr[th].pc = "idle"
            /\ last' = [op |-> "new_branch_database", name |-> origin,
                        result |-> "AttributeError"]
            /\ UNCHANGED <<atomVars, root, pushed, lock, thr, branches, tx, finished>>
       ELSE Call(th, "new_branch_database", origin, "", EmptyDict, bn)

\* the body of the commit_database(self.database_name, Dictionary()) it
\* calls, and `return new_db`
new_branch_database_end(th) ==
    /\ InBody(th, "new_branch_database")
    /\ LET out == BranchOutcome(commit_database_body(thr[th].rootRead, thr[th].name,
                                                     thr[th].new_root))
       IN /\ Complete("new_branch_database", thr[th].name, out)
          /\ branches' = IF out.result = "Database"
                         THEN SetAt(branches, thr[th].bname,
                                    BranchRecord(thr[th].rootRead, thr[th].name))
                         ELSE branches
    /\ Unlock(th)
    /\ UNCHANGED <<atomVars, tx, finished>>

(***************************************************************************)
(* The same calls made while no other thread is inside the ObjectSpace:    *)
(* lock, read, body and unlock in one step                                 *)
(***************************************************************************)
Uncontended == pushed < MaxPushes /\ lock = {}

open_database(database_name) ==
    /\ Uncontended
    /\ Complete("open_database", database_name, open_database_body(root, database_name))
    /\ UNCHANGED <<atomVars, lock, thr, branches, tx, finished>>

new_database(database_name) ==
    /\ Uncontended
    /\ Complete("new_database", database_name, new_database_body(root, database_name))
    /\ UNCHANGED <<atomVars, lock, thr, branches, tx, finished>>

rename_database(old_name, new_name) ==
    /\ Uncontended
    /\ Complete("rename_database", old_name, rename_database_body(root, old_name, new_name))
    /\ UNCHANGED <<atomVars, lock, thr, branches, tx, finished>>

commit_database(database_name, new_root) ==
    /\ Uncontended
    /\ Complete("commit_database", database_name,
                commit_database_body(root, database_name, new_root))
    /\ UNCHANGED <<atomVars, lock, thr, branches, tx, finished>>

new_branch_database(origin, bn) ==
    /\ Uncontended
    /\ bn \notin DOMAIN branches
    /\ LET out == BranchOutcome(commit_database_body(root, origin, EmptyDict))
       IN /\ Complete("new_branch_database", origin, out)
          /\ branches' = IF out.result = "Database"
                         THEN SetAt(branches, bn, BranchRecord(root, origin))
                         ELSE branches
    /\ UNCHANGED <<atomVars, lock, thr, tx, finished>>

(***************************************************************************)
(* Database and ObjectTransaction                                          *)
(***************************************************************************)
\* the class attribute `transaction_root: Dictionary = None`
ClassTransactionRoot == NoneV

\* ObjectTransaction.__init__(database, transaction_root): the test reads
\* self.transaction_root, which is still the class attribute
\* began, wrote and stale are history: how many transactions had finished
\* when this one was opened, the slots written through a persisted
\* MutableObject, whether commit() ran on a stale locked object, and the
\* strings get_literal was called with
ObjectTransaction(database_name, transaction_root) ==
    LET working == IF ClassTransactionRoot # NoneV THEN transaction_root ELSE EmptyDict
        has_mutable == Has(transaction_root, "_mutable_root")
        mutable_objects == IF has_mutable THEN GetAt(working, "_mutable_root")
                                          ELSE Some(EmptyDict)
    IN [status |-> "open", db |-> database_name,
        initial_transaction_root |-> transaction_root,
        transaction_root |-> working,
        read_lock_objects |-> EmptyDict,
        mutable_objects |-> mutable_objects,
        initial_mutable_root |-> IF has_mutable THEN mutable_objects ELSE NoneV,
        new_literals |-> EmptyDict,
        began |-> Len(finished), wrote |-> {}, stale |-> FALSE, interned |-> {}]

\* Database.new_transaction on a Database named database_name: no lock is taken
new_transaction(t, database_name) ==
    /\ tx[t].status = "none"
    /\ IF root = NoneV
       THEN /\ last' = [op |-> "new_transaction", name |-> database_name,
                        result |-> "AttributeError"]
            /\ UNCHANGED tx
       ELSE LET db_catalog == root[1].object_root
            IN IF Has(db_catalog, database_name)
               THEN /\ tx' = [tx EXCEPT ![t] =
                                ObjectTransaction(database_name, db_catalog[database_name])]
                    /\ last' = [op |-> "new_transaction", name |-> database_name,
                                result |-> "ObjectTransaction"]
               ELSE /\ last' = [op |-> "new_transaction", name |-> database_name,
                                result |-> "None"]
                    /\ UNCHANGED tx
    /\ UNCHANGED <<atomVars, root, pushed, lock, thr, branches, finished>>

\* ObjectTransaction.get_root_object(name): None or <<value>>
get_root_object(t, name) == GetAt(tx[t].transaction_root, name)

\* a set_root_object that stages in the working root of every open transaction
set_root_object_shared(t, name, value) ==
    /\ tx[t].status = "open"
    /\ tx' = [u \in TxIds |->
                IF tx[u].status = "open"
                THEN [tx[u] EXCEPT !.transaction_root = SetAt(@, name, value)]
                ELSE tx[u]]
    /\ UNCHANGED <<atomVars, root, pushed, lock, thr, branches, finished, last>>

set_root_object(t, name, value) ==
    /\ tx[t].status = "open"
    /\ tx' = [tx EXCEPT ![t].transaction_root = SetAt(@, name, value)]
    /\ UNCHANGED <<atomVars, root, pushed, lock, thr, branches, finished, last>>

\* set_lock_object(object) for an object whose hash() is h and whose content
\* is snapshot
set_lock_object(t, h, snapshot) ==
    /\ tx[t].status = "open"
    /\ tx' = [tx EXCEPT ![t].read_lock_objects = SetAt(@, h, snapshot)]
    /\ UNCHANGED <<atomVars, root, pushed, lock, thr, branches, finished, last>>

\* Database.get_literal(string): root.literal_root of no root is an AttributeError
Database_get_literal(string) ==
    IF root = NoneV THEN "AttributeError"
    ELSE IF Has(root[1].literal_root, string) THEN "Literal" ELSE "None"

\* Literal(transaction=self, string=string): Literal.__init__ hands
\* transaction_id= and offset= on to Atom.__init__, whose
\* `for name, value in kwargs` unpacks the key 'transaction_id' into two names
Literal_init == "ValueError"

\* ObjectTransaction.get_literal(string): the pending table to keep, and the outcome
get_literal_body(t, string) ==
    IF Has(tx[t].new_literals, string)
    THEN [new_literals |-> tx[t].new_literals, result |-> "Literal"]
    ELSE LET existing_literal == Database_get_literal(string)
         IN IF existing_literal # "None"
            THEN [new_literals |-> tx[t].new_literals, result |-> existing_literal]
            ELSE IF Literal_init = "Literal"
            THEN [new_literals |-> SetAt(tx[t].new_literals, string, string),
                  result |-> "Literal"]
            ELSE [new_literals |-> tx[t].new_literals, result |-> Literal_init]

get_literal(t, string) ==
    /\ tx[t].status = "open"
    /\ tx' = [tx EXCEPT ![t].new_literals = get_literal_body(t, string).new_literals]
    /\ UNCHANGED <<atomVars, root, pushed, lock, thr, branches, finished, last>>

\* ObjectTransaction.get_mutable(key): <<"AttributeError">> when
\* mutable_objects is None, else None or <<snapshot>>
get_mutable(t, key) ==
    IF tx[t].mutable_objects = NoneV THEN Some("AttributeError")
    ELSE GetAt(tx[t].mutable_objects[1], key)

\* ObjectTransaction.set_mutable(key, value): the table set_at builds is
\* returned; self.mutable_objects is not assigned
set_mutable(t, key, value) == tx[t].mutable_objects

\* ObjectTransaction.set_lock_object, as MutableObject.__setattr__ calls it
set_locked_object(t, h, current_object) == SetAt(tx[t].read_lock_objects, h, current_object)

\* DBObject(...): Atom.__init__ assigns its first field through
\* DBObject.__setattr__, which calls _load(), which reads _loaded before any
\* field exists, through __getattr__, which calls _load() again
DBObject_init == "RecursionError"

\* DBObject._setattr(name, value) of proto_db: its first statement is
\* `new_object = DBObject()`; the receiver is not touched
DBObject_setattr(current_object, name, value) == DBObject_init

\* MutableObject.__setattr__(key, value) on a MutableObject of transaction t
\* with hash_key h; persisted: its atom_pointer is set.  Gives the exception
\* raised or "None", and the slot table and locked set the transaction is left with.
MutableObject_setattr(t, h, persisted, key, value) ==
    LET current_object == get_mutable(t, h)
        raised(e) == [result |-> e,
                      mutable_objects |-> tx[t].mutable_objects,
                      read_lock_objects |-> tx[t].read_lock_objects]
    IN IF current_object = NoneV \/ current_object = Some("AttributeError")
       THEN raised("AttributeError")
       ELSE LET new_object == DBObject_setattr(current_object[1], key, value)
            IN IF new_object = "RecursionError"
               THEN raised("RecursionError")
               ELSE [result |-> "None",
                     mutable_objects |-> set_mutable(t, h, new_object),
                     read_lock_objects |->
                         IF persisted THEN set_locked_object(t, h, current_object[1])
                                      ELSE tx[t].read_lock_objects]

\* a write `m.attr = value`; wrote records the slots written through a
\* MutableObject that has a persisted pointer
mutable_write(t, h, persisted, value) ==
    /\ tx[t].status = "open"
    /\ LET out == MutableObject_setattr(t, h, persisted, "attr", value)
       IN tx' = [tx EXCEPT ![t].mutable_objects = out.mutable_objects,
                           ![t].read_lock_objects = out.read_lock_objects,
                           ![t].wrote = IF persisted THEN @ \cup {h} ELSE @]
    /\ UNCHANGED <<atomVars, root, pushed, lock, thr, branches, finished, last>>

\* The value now committed for slot h of database db: None or <<snapshot>>
CommittedSlot(db, h) ==
    IF ~Has(Catalog, db) THEN NoneV
    ELSE IF ~Has(Catalog[db], "_mutable_root") THEN NoneV
    ELSE GetAt(Catalog[db]["_mutable_root"], h)

\* Some locked object of t differs from what is now committed for it
StaleLock(t) ==
    \E h \in DOMAIN tx[t].read_lock_objects :
        Some(tx[t].read_lock_objects[h]) # CommittedSlot(tx[t].db, h)

\* a commit() that stores its working root with commit_database, unvalidated
commit_unvalidated(t) ==
    /\ tx[t].status = "open"
    /\ tx' = [tx EXCEPT ![t].status = "committed", ![t].stale = StaleLock(t)]
    /\ finished' = Append(finished, t)
    /\ Complete("commit", tx[t].db,
                commit_database_body(root, tx[t].db, tx[t].transaction_root))
    /\ UNCHANGED <<atomVars, lock, thr, branches>>

\* ObjectTransaction.commit(): the body is the docstring alone, the call
\* returns None
commit(t) ==
    /\ tx[t].status = "open"
    /\ tx' = [tx EXCEPT ![t].status = "committed", ![t].stale = StaleLock(t)]
    /\ finished' = Append(finished, t)
    /\ UNCHANGED <<atomVars, root, pushed, lock, thr, branches, last>>

\* an abort() that stores its working root like a commit
abort_storing(t) ==
    /\ tx[t].status = "open"
    /\ tx' = [tx EXCEPT ![t].status = "aborted"]
    /\ finished' = Append(finished, t)
    /\ Complete("abort", tx[t].db,
                commit_database_body(root, tx[t].db, tx[t].transaction_root))
    /\ UNCHANGED <<atomVars, lock, thr, branches>>

\* ObjectTransaction.abort(): the body is the docstring alone
abort(t) ==
    /\ tx[t].status = "open"
    /\ tx' = [tx EXCEPT ![t].status = "aborted"]
    /\ finished' = Append(finished, t)
    /\ UNCHANGED <<atomVars, root, pushed, lock, thr, branches, last>>

(***************************************************************************)
(* Specifications                                                          *)
(***************************************************************************)
\* Transactions over a catalog that one caller at a time changes
Next ==
    \/ \E n \in DbNames : open_database(n)
    \/ \E n \in DbNames : new_database(n)
    \/ \E o \in DbNames, n \in DbNames : rename_database(o, n)
    \/ \E n \in DbNames \cup DOMAIN branches, r \in NewRoots : commit_database(n, r)
    \/ \E n \in DbNames, bn \in BranchNames : new_branch_database(n, bn)
    \/ \E t \in TxIds, n \in DbNames \cup DOMAIN branches : new_transaction(t, n)
    \/ \E t \in TxIds, n \in RootNames, v \in Values : set_root_object(t, n, v)
    \/ \E t \in TxIds, s \in Strings : get_literal(t, s)
    \/ \E t \in TxIds, h \in Slots, v \in Values : mutable_write(t, h, FALSE, v)
    \/ \E t \in TxIds : commit(t)
    \/ \E t \in TxIds : abort(t)

Spec == Init /\ [][Next]_vars

\* Optimistic concurrency on one database: locked objects and writes
\* through persisted MutableObjects
OccNames == {"a"}

NextOCC ==
    \/ \E n \in OccNames : new_database(n)
    \/ \E n \in OccNames, r \in NewRoots : commit_database(n, r)
    \/ \E t \in TxIds, n \in OccNames : new_transaction(t, n)
    \/ \E t \in TxIds, h \in Slots, v \in Values : set_lock_object(t, h, v)
    \/ \E t \in TxIds, h \in Slots, v \in Values : mutable_write(t, h, TRUE, v)
    \/ \E t \in TxIds : commit(t)

SpecOCC == Init /\ [][NextOCC]_vars

\* a call t.get_literal(string), with its outcome recorded
get_literal_call(t, string) ==
    /\ tx[t].status = "open"
    /\ LET r == get_literal_body(t, string)
       IN /\ tx' = [tx EXCEPT ![t].new_literals = r.new_literals,
                              ![t].interned = @ \cup {string}]
          /\ last' = [op |-> "get_literal", name |-> string, result |-> r.result]
    /\ UNCHANGED <<atomVars, root, pushed, lock, thr, branches, finished>>

\* Root objects: transactions that stage roots under several names
StagedNames == RootNames \cup {"m"}

NextRoots ==
    \/ \E n \in OccNames : new_database(n)
    \/ \E n \in OccNames, r \in NewRoots : commit_database(n, r)
    \/ \E t \in TxIds, n \in OccNames : new_transaction(t, n)
    \/ \E t \in TxIds, n \in StagedNames, v \in Values : set_root_object(t, n, v)
    \/ \E t \in TxIds : commit(t)

SpecRoots == Init /\ [][NextRoots]_vars

\* Literals: transactions that intern strings and commit
LiteralStrings == Strings \cup {"y"}

NextLiteral ==
    \/ \E n \in DbNames : new_database(n)
    \/ \E t \in TxIds, n \in DbNames : new_transaction(t, n)
    \/ \E t \in TxIds, s \in LiteralStrings : get_literal_call(t, s)
    \/ \E t \in TxIds : commit(t)

SpecLiteral == Init /\ [][NextLiteral]_vars

\* The catalog operations of two threads on one ObjectSpace
NextCatalog ==
    \E th \in Threads :
        \/ \E n \in DbNames : open_database_call(th, n)
        \/ \E n \in DbNames : new_database_call(th, n)
        \/ \E o \in DbNames, n \in DbNames : rename_database_call(th, o, n)
        \/ \E n \in DbNames, r \in NewRoots : commit_database_call(th, n, r)
        \/ \E n \in DbNames, bn \in BranchNames : new_branch_database_call(th, n, bn)
        \/ lock_and_read(th)
        \/ open_database_end(th)
        \/ new_database_end(th)
        \/ rename_database_end(th)
        \/ commit_database_end(th)
        \/ new_branch_database_end(th)

SpecCatalog == Init /\ [][NextCatalog]_vars

\* The ObjectSpace methods that take the lock, called from two threads that
\* are scheduled fairly: a thread inside `with self._lock` runs its body to
\* the end, and a thread waiting for a lock that is released again and
\* again is at some time the one that gets it
LiteralLists == {<<>>, <<"x">>}

body_end(th) ==
    \/ open_database_end(th)
    \/ new_database_end(th)
    \/ rename_database_end(th)
    \/ commit_database_end(th)
    \/ get_literals_end(th)

NextLock ==
    \E th \in Threads :
        \/ \E n \in DbNames : open_database_call(th, n)
        \/ \E n \in DbNames : new_database_call(th, n)
        \/ \E o \in DbNames, n \in DbNames : rename_database_call(th, o, n)
        \/ \E n \in DbNames, r \in NewRoots : commit_database_call(th, n, r)
        \/ \E l \in LiteralLists : get_literals_call(th, l)
        \/ lock_and_read(th)
        \/ body_end(th)

Fairness ==
    \A th \in Threads : WF_vars(body_end(th)) /\ SF_vars(lock_and_read(th))

SpecLock == Init /\ [][NextLock]_vars /\ Fairness

(***************************************************************************)
(* Atom: _save and _load, in both packages.  An atom's attributes are the  *)
(* values in its __dict__ besides the fields below; a value is another     *)
(* atom or a str.  The storage provider is abstract: push_atom returns the *)
(* next offset of the transaction's log, or fails.                         *)
(***************************************************************************)
Libs == {"proto_base", "proto_db"}
Atoms == {"x", "y", "z"}
StrValues == {"hello"}

\* AtomPointer(transaction_id, offset)
AtomPointer(transaction_id, offset) == [transaction_id |-> transaction_id, offset |-> offset]
\* pointers of atoms stored by an earlier transaction; offset 0 is the first of its log
StoredPointers == {AtomPointer("w0", 0), AtomPointer("w0", 1)}

\* Atom.__init__(transaction, atom_pointer): _loaded = False; _saved /
\* _saving is the class attribute False
NewAtom(transaction, atom_pointer) ==
    [atom_pointer |-> atom_pointer, transaction |-> transaction,
     loaded |-> FALSE, saved |-> FALSE, populated |-> FALSE]

\* The attribute graphs: a chain, a child shared by two parents, both, a cycle
AttrGraphs ==
    { [x |-> <<>>, y |-> <<"x">>, z |-> <<"y">>],
      [x |-> <<>>, y |-> <<"x">>, z |-> <<"x">>],
      [x |-> <<>>, y |-> <<"x">>, z |-> <<"x", "y">>],
      [x |-> <<"y">>, y |-> <<"x">>, z |-> <<>>] }

\* a str attribute, set after the others
WithStr(g, a, str) == [g EXCEPT ![a] = Append(@, str)]

\* the atoms belong to a transaction opened on a new database "a"
InitAtom ==
    /\ root = new_database_body(NoneV, "a").root
    /\ pushed = 1 /\ lock = {}
    /\ thr = [th \in Threads |-> IdleThread]
    /\ branches = EmptyDict
    /\ finished = <<>> /\ last = NoCall
    /\ tx = [t \in TxIds |-> IF t = "T1" THEN ObjectTransaction("a", EmptyDict) ELSE NoTx]
    /\ lib \in Libs
    /\ \E g \in AttrGraphs :
          \/ attrs = g
          \/ \E a \in Atoms, str \in StrValues : attrs = WithStr(g, a, str)
    /\ \E owned \in SUBSET Atoms, p \in {NoneV} \cup {Some(q) : q \in StoredPointers} :
          atom = [a \in Atoms |->
                    NewAtom(a \in owned, IF a = "x" THEN p ELSE NoneV)]
    /\ wal = <<>>
    /\ fetched = <<>>
    /\ ret = NoCall

\* what a call leaves: the atoms, the log, and the exception raised or "None"
Heap(a, w) == [atom |-> a, wal |-> w]
Done(H, exc) == [h |-> H, exc |-> exc]

\* the test without its `not self.atom_pointer` half
NeedsSave_unsaved(H, a) == ~H.atom[a].saved

\* `if not self.atom_pointer and not self._saved` (_saving in proto_base)
NeedsSave(H, a) == H.atom[a].atom_pointer = NoneV /\ ~H.atom[a].saved

\* a _save that does not look for a transaction
Owned_always(H, a) == TRUE

\* `if self.transaction:` (_transaction in proto_base)
Owned(H, a) == H.atom[a].transaction

\* `if not value.transaction: value.transaction = self.transaction`
Adopt(H, c) == [H EXCEPT !.atom[c].transaction = TRUE]

\* the pointers of a's Atom-valued attributes, None for one that has none
RefsOf(H, a) ==
    [i \in {j \in 1..Len(attrs[a]) : attrs[a][j] \in Atoms} |->
        H.atom[attrs[a][i]].atom_pointer]

\* storage_provider.push_atom(...).result() and
\* `self.atom_pointer = AtomPointer(pointer.transaction_id, pointer.offset)`;
\* fail names the atom whose push the storage fails
Push(H, a, fail) ==
    IF fail = a
    THEN Done(H, "StorageError")
    ELSE LET pointer == AtomPointer("w1", Len(H.wal))
         IN Done([H EXCEPT !.wal = Append(@, [atom |-> a, refs |-> RefsOf(H, a)]),
                           !.atom[a].atom_pointer = Some(pointer)],
                 "None")

\* the transaction that owns the atoms
Owner == "T1"

RECURSIVE Atom_save(_, _, _), SaveAttributes(_, _, _, _), DictToJson(_, _, _, _)

\* the loop of _save over self.__dict__, from the i-th attribute on.
\* proto_db: an Atom value is adopted and saved.  proto_base: the same, and
\* a str value is replaced by self._transaction.get_literal(value), which is
\* then saved (an interned Literal has its pointer)
SaveAttributes(H, a, i, fail) ==
    IF i > Len(attrs[a]) THEN Done(H, "None")
    ELSE LET value == attrs[a][i]
         IN IF value \in Atoms
            THEN LET r == Atom_save(Adopt(H, value), value, fail)
                 IN IF r.exc # "None" THEN r ELSE SaveAttributes(r.h, a, i + 1, fail)
            ELSE IF lib = "proto_base"
            THEN LET new_literal == get_literal_body(Owner, value).result
                 IN IF new_literal # "Literal" THEN Done(H, new_literal)
                    ELSE SaveAttributes(H, a, i + 1, fail)
            ELSE SaveAttributes(H, a, i + 1, fail)

\* proto_db _dict_to_json over the attributes, from the i-th on: an Atom
\* value is adopted and saved again, then value.atom_pointer.transaction_id
\* is read, an AttributeError when the pointer is None
DictToJson(H, a, i, fail) ==
    IF i > Len(attrs[a]) THEN Done(H, "None")
    ELSE LET value == attrs[a][i]
         IN IF value \in Atoms
            THEN LET r == Atom_save(Adopt(H, value), value, fail)
                 IN IF r.exc # "None" THEN r
                    ELSE IF r.h.atom[value].atom_pointer = NoneV
                    THEN Done(r.h, "AttributeError")
                    ELSE DictToJson(r.h, a, i + 1, fail)
            ELSE DictToJson(H, a, i + 1, fail)

\* Atom._save()
Atom_save(H, a, fail) ==
    IF NeedsSave(H, a)
    THEN IF Owned(H, a)
         THEN LET marked == [H EXCEPT !.atom[a].saved = TRUE]
                  r1 == SaveAttributes(marked, a, 1, fail)
              IN IF r1.exc # "None" THEN r1
                 ELSE IF lib = "proto_db"
                 THEN LET r2 == DictToJson(r1.h, a, 1, fail)
                      IN IF r2.exc # "None" THEN r2 ELSE Push(r2.h, a, fail)
                 ELSE Push(r1.h, a, fail)
         ELSE Done(H, "ProtoValidationException")
    ELSE Done(H, "None")

\* `self.atom_pointer.transaction_id and self.atom_pointer.offset` (a
\* uuid.UUID is always true, an offset is true unless it is 0)
PointerIsTrue(p) == p.offset # 0

\* a _load that takes atom_pointer from the fetched form, which has none
Atom_load_resets_pointer(a) ==
    LET self == atom[a]
    IN IF self.loaded \/ ~self.transaction \/ self.atom_pointer = NoneV
       THEN [atom |-> self, fetched |-> fetched, exc |-> "None"]
       ELSE [atom |-> [self EXCEPT !.loaded = TRUE, !.atom_pointer = NoneV],
             fetched |-> Append(fetched, self.atom_pointer[1]), exc |-> "None"]

\* Atom._load(): the atom it leaves, the fetches made, the exception or "None"
Atom_load(a) ==
    LET self == atom[a]
        Result(me, f, exc) == [atom |-> me, fetched |-> f, exc |-> exc]
        fetch == self.atom_pointer # NoneV /\ PointerIsTrue(self.atom_pointer[1])
    IN IF self.loaded THEN Result(self, fetched, "None")
       ELSE IF lib = "proto_db"
       THEN IF self.transaction /\ fetch
            THEN Result([self EXCEPT !.loaded = TRUE, !.populated = TRUE],
                        Append(fetched, self.atom_pointer[1]), "None")
            ELSE Result([self EXCEPT !.loaded = TRUE], fetched, "None")
       ELSE IF ~self.transaction
            THEN Result(self, fetched, "ProtoValidationException")
            ELSE IF self.atom_pointer = NoneV
            THEN Result(self, fetched, "AttributeError")
            ELSE IF fetch
            THEN Result([self EXCEPT !.loaded = TRUE],
                        Append(fetched, self.atom_pointer[1]), "None")
            ELSE Result([self EXCEPT !.loaded = TRUE], fetched, "None")

catalogVars == <<root, pushed, lock, thr, branches, tx, finished, last>>

\* a call a._save(), during which the storage fails the push of atom fail
save(a, fail) ==
    /\ LET r == Atom_save(Heap(atom, wal), a, fail)
       IN /\ atom' = r.h.atom
          /\ wal' = r.h.wal
          /\ ret' = [op |-> "_save", name |-> a, result |-> r.exc]
    /\ UNCHANGED <<lib, attrs, fetched, catalogVars>>

\* a call a._load()
load(a) ==
    /\ LET r == Atom_load(a)
       IN /\ atom' = [atom EXCEPT ![a] = r.atom]
          /\ fetched' = r.fetched
          /\ ret' = [op |-> "_load", name |-> a, result |-> r.exc]
    /\ UNCHANGED <<lib, attrs, wal, catalogVars>>

NextAtom ==
    \/ \E a \in Atoms, fail \in Atoms \cup {"none"} : save(a, fail)
    \/ \E a \in Atoms : load(a)

SpecAtom == InitAtom /\ [][NextAtom]_vars

\* Atom.__eq__(other) of proto_db, for other an Atom: the test reads
\* self.atom_poiner, a name no atom has; Atom.__getattr__ loads the atom and
\* then finds no such attribute.  The comparisons of the pointers that
\* follow are not reached.
Atom_eq(a, b) ==
    LET r == Atom_load(a)
    IN [atom |-> r.atom, fetched |-> r.fetched, result |-> "AttributeError"]

\* atoms with and without pointers, none loaded
InitEq ==
    /\ root = new_database_body(NoneV, "a").root
    /\ pushed = 1 /\ lock = {}
    /\ thr = [th \in Threads |-> IdleThread]
    /\ branches = EmptyDict
    /\ finished = <<>> /\ last = NoCall
    /\ tx = [t \in TxIds |-> IF t = Owner THEN ObjectTransaction("a", EmptyDict) ELSE NoTx]
    /\ lib = "proto_db"
    /\ attrs = [a \in Atoms |-> <<>>]
    /\ atom \in [Atoms -> {NewAtom(owned, p) :
                              owned \in BOOLEAN,
                              p \in {NoneV} \cup {Some(q) : q \in StoredPointers}}]
    /\ wal = <<>>
    /\ fetched = <<>>
    /\ ret = NoCall

\* an expression `a == b`
eq(a, b) ==
    /\ LET r == Atom_eq(a, b)
       IN /\ atom' = [atom EXCEPT ![a] = r.atom]
          /\ fetched' = r.fetched
          /\ ret' = [op |-> "__eq__", name |-> a, result |-> r.result]
    /\ UNCHANGED <<lib, attrs, wal, catalogVars>>

NextEq ==
    \/ \E a \in Atoms, b \in Atoms : eq(a, b)
    \/ \E a \in Atoms : load(a)

SpecEq == InitEq /\ [][NextEq]_vars

(***************************************************************************)
(* DBObject: the constructor and _setattr, in both packages.  The          *)
(* constructor never returns (DBObject_init), so a DBObject is taken as    *)
(* given with the fields the class keeps: those of an Atom and the table   *)
(* of its attributes (_attributes in proto_base, the rest of __dict__ in   *)
(* proto_db).  In proto_base the instance __dict__ can also come to hold   *)
(* user names (field dict); ordinary lookup finds them before __getattr__  *)
(* is asked.                                                               *)
(***************************************************************************)
Objects == {"o"}
AttrNames == {"k1", "k2"}               \* attribute names a caller uses
InternalNames == {"_attributes"}        \* names for which name.startswith('_')
AttrTables == UNION {[D -> Values] : D \in SUBSET AttrNames}
ReservedNames == {"_k"}                 \* names with '_' in a mapping given to DBObject(...)
CtorTables == UNION {[D -> Values] : D \in SUBSET (AttrNames \cup ReservedNames)}
\* the names of mapping m that start with '_'
Reserved(m) == (DOMAIN m) \cap ReservedNames

\* the fields of a DBObject
GivenDBObject(transaction, atom_pointer, loaded, attributes) ==
    [atom_pointer |-> atom_pointer, transaction |-> transaction,
     loaded |-> loaded, saved |-> FALSE, populated |-> FALSE,
     attributes |-> attributes, dict |-> EmptyDict]

InitObject ==
    /\ root = new_database_body(NoneV, "a").root
    /\ pushed = 1 /\ lock = {}
    /\ thr = [th \in Threads |-> IdleThread]
    /\ branches = EmptyDict
    /\ finished = <<>> /\ last = NoCall
    /\ tx = [t \in TxIds |-> IF t = "T1" THEN ObjectTransaction("a", EmptyDict) ELSE NoTx]
    /\ lib \in Libs
    /\ attrs = <<>>
    /\ \E owned \in BOOLEAN, p \in {NoneV} \cup {Some(q) : q \in StoredPointers},
          loaded \in BOOLEAN, m \in AttrTables :
          atom = [o \in Objects |-> GivenDBObject(owned, p, loaded, m)]
    /\ wal = <<>>
    /\ fetched = <<>>
    /\ ret = NoCall

\* o._load() on a DBObject.  proto_base: Atom._load, whose assignment of
\* _loaded passes DBObject.__setattr__ (hasattr finds it).  proto_db: every
\* assignment in Atom._load goes through DBObject.__setattr__, which calls
\* _load() while _loaded is still False: the fetch, when there is one, is
\* repeated until RecursionError, and _loaded is never set.
DBObject_load(o) ==
    LET self == atom[o]
        Result(me, f, exc) == [atom |-> me, fetched |-> f, exc |-> exc]
    IN IF lib = "proto_base" THEN Atom_load(o)
       ELSE IF self.loaded THEN Result(self, fetched, "None")
       ELSE IF self.transaction /\ self.atom_pointer # NoneV
                                /\ PointerIsTrue(self.atom_pointer[1])
       THEN Result(self, Append(fetched, self.atom_pointer[1]), "RecursionError")
       ELSE Result(self, fetched, "RecursionError")

\* DBObject._setattr(name, value) of proto_base on object o: the object it
\* leaves, the fetches made, and what is returned ("self") or raised.  For a
\* name without '_', `self.attributes` goes to __getattr__, finds no
\* attribute of that name and asks hasattr(self, name), which is __getattr__
\* again.
DBObject_setattr_base(o, name, value) ==
    LET r == Atom_load(o)
        Result(me, res) == [atom |-> me, fetched |-> r.fetched, result |-> res]
    IN IF r.exc # "None" THEN Result(r.atom, r.exc)
       ELSE IF name \in InternalNames
       THEN Result([r.atom EXCEPT !.attributes = value], "self")
       ELSE Result(r.atom, "RecursionError")

\* a call o._setattr(name, value)
setattr_call(o, name, value) ==
    /\ LET r == IF lib = "proto_db"
                THEN [atom |-> atom[o], fetched |-> fetched,
                      result |-> DBObject_setattr(atom[o], name, value)]
                ELSE DBObject_setattr_base(o, name, value)
       IN /\ atom' = [atom EXCEPT ![o] = r.atom]
          /\ fetched' = r.fetched
          /\ ret' = [op |-> "_setattr", name |-> name, result |-> r.result]
    /\ UNCHANGED <<lib, attrs, wal, catalogVars>>

\* `o.key = value`: DBObject.__setattr__(key, value).  hasattr(self, key) is
\* true when ordinary lookup finds key, or when __getattr__ returns; it is
\* false when __getattr__ raises AttributeError, and any other exception of
\* __getattr__ comes out of hasattr.  __getattr__ of a name that is not
\* found asks hasattr(self, name) itself, without end.
\* proto_db: _load() first; the attributes are in __dict__.
\* proto_base: no _load() of its own; __getattr__ loads, then looks in
\* _attributes, and the assignment lands in __dict__.
DBObject__setattr__(o, key, value) ==
    LET r == DBObject_load(o)
        self == atom[o]
        Result(me, f, res) == [atom |-> me, fetched |-> f, result |-> res]
    IN IF lib = "proto_db"
       THEN IF r.exc # "None" THEN Result(r.atom, r.fetched, r.exc)
            ELSE IF Has(self.attributes, key)
            THEN Result([self EXCEPT !.attributes = SetAt(@, key, value)], fetched, "None")
            ELSE Result(self, fetched, "RecursionError")
       ELSE IF Has(self.dict, key)
            THEN Result([self EXCEPT !.dict = SetAt(@, key, value)], fetched, "None")
            ELSE IF r.exc = "AttributeError"
            THEN Result(r.atom, r.fetched, "ProtoValidationException")
            ELSE IF r.exc # "None" THEN Result(r.atom, r.fetched, r.exc)
            ELSE IF Has(self.attributes, key)
            THEN Result([r.atom EXCEPT !.dict = SetAt(@, key, value)], r.fetched, "None")
            ELSE Result(r.atom, r.fetched, "RecursionError")

\* a statement `o.key = value`
assign(o, key, value) ==
    /\ Len(fetched) < MaxFetches
    /\ LET r == DBObject__setattr__(o, key, value)
       IN /\ atom' = [atom EXCEPT ![o] = r.atom]
          /\ fetched' = r.fetched
          /\ ret' = [op |-> "__setattr__", name |-> key, result |-> r.result]
    /\ UNCHANGED <<lib, attrs, wal, catalogVars>>

\* `o.name`: ordinary lookup in the instance __dict__, then
\* DBObject.__getattr__(name): _load(), the attribute if _attributes has it
\* (proto_base), then hasattr(self, name), which is __getattr__ again.
\* Gives the value read or the exception raised.
DBObject__getattr__(o, name) ==
    LET r == DBObject_load(o)
        self == atom[o]
        Result(me, f, res) == [atom |-> me, fetched |-> f, result |-> res]
    IN IF lib = "proto_db"
       THEN IF Has(self.attributes, name)
            THEN Result(self, fetched, self.attributes[name])
            ELSE IF r.exc # "None" THEN Result(r.atom, r.fetched, r.exc)
            ELSE Result(self, fetched, "RecursionError")
       ELSE IF Has(self.dict, name)
            THEN Result(self, fetched, self.dict[name])
            ELSE IF r.exc # "None" THEN Result(r.atom, r.fetched, r.exc)
            ELSE IF Has(self.attributes, name)
            THEN Result(r.atom, r.fetched, self.attributes[name])
            ELSE Result(r.atom, r.fetched, "RecursionError")

\* an expression `o.name`
read(o, name) ==
    /\ Len(fetched) < MaxFetches
    /\ LET r == DBObject__getattr__(o, name)
       IN /\ atom' = [atom EXCEPT ![o] = r.atom]
          /\ fetched' = r.fetched
          /\ ret' = [op |-> "__getattr__", name |-> name, result |-> r.result]
    /\ UNCHANGED <<lib, attrs, wal, catalogVars>>

\* a call o._load(); MaxFetches bounds the fetches recorded
object_load(o) ==
    /\ Len(fetched) < MaxFetches
    /\ LET r == DBObject_load(o)
       IN /\ atom' = [atom EXCEPT ![o] = r.atom]
          /\ fetched' = r.fetched
          /\ ret' = [op |-> "_load", name |-> o, result |-> r.exc]
    /\ UNCHANGED <<lib, attrs, wal, catalogVars>>

\* a call DBObject(attributes=m); the call is recorded with the reserved
\* name of m, if it has one
new_object(m) ==
    /\ ret' = [op |-> "DBObject",
               name |-> IF Reserved(m) = {} THEN "" ELSE CHOOSE n \in Reserved(m) : TRUE,
               result |-> DBObject_init]
    /\ UNCHANGED <<lib, attrs, atom, wal, fetched, catalogVars>>

NextObject ==
    \/ \E o \in Objects, name \in AttrNames, value \in Values :
          setattr_call(o, name, value)
    \/ \E o \in Objects, name \in InternalNames, value \in AttrTables :
          setattr_call(o, name, value)
    \/ \E o \in Objects, key \in AttrNames, value \in Values : assign(o, key, value)
    \/ \E o \in Objects, name \in AttrNames : read(o, name)
    \/ \E o \in Objects : object_load(o)
    \/ \E m \in CtorTables : new_object(m)

SpecObject == InitObject /\ [][NextObject]_vars

(***************************************************************************)
(* MutableObject: attribute reads and writes and hash(), in both packages. *)
(* MutableObject(...) never returns either (it runs DBObject.__init__), so *)
(* a MutableObject is taken as given with its fields: whether it has the   *)
(* transaction Owner, its atom_pointer and its hash_key.                   *)
(***************************************************************************)
Mutables == {"m1", "m2"}
HashKeys == Slots \cup {"s2"}

GivenMutableObject(transaction, atom_pointer, hash_key) ==
    [atom_pointer |-> atom_pointer, transaction |-> transaction, hash_key |-> hash_key]

InitMutable ==
    /\ root = new_database_body(NoneV, "a").root
    /\ pushed = 1 /\ lock = {}
    /\ thr = [th \in Threads |-> IdleThread]
    /\ branches = EmptyDict
    /\ finished = <<>> /\ last = NoCall
    /\ tx = [t \in TxIds |-> IF t = Owner THEN ObjectTransaction("a", EmptyDict) ELSE NoTx]
    /\ lib \in Libs
    /\ attrs = <<>>
    /\ atom \in [Mutables ->
                   {GivenMutableObject(owned, p, h) :
                       owned \in BOOLEAN,
                       p \in {NoneV} \cup {Some(q) : q \in StoredPointers},
                       h \in HashKeys}]
    /\ wal = <<>>
    /\ fetched = <<>>
    /\ ret = NoCall

\* MutableObject.hash(): proto_db returns self.hash(), proto_base self.hash_key
MutableObject_hash(m) ==
    IF lib = "proto_db" THEN "RecursionError" ELSE atom[m].hash_key

\* `m.name` for a name ordinary lookup does not find: MutableObject.__getattr__.
\* proto_base: the object's field is _transaction, so `self.transaction` is
\* itself a name that is not found and goes to __getattr__ again.
\* proto_db: the explicit current_object.__getattr__(name) of a snapshot
\* ends in getattr(super(), name), which has no such attribute.
MutableObject__getattr__(m, name) ==
    IF lib = "proto_base" THEN "RecursionError"
    ELSE IF ~atom[m].transaction THEN "ProtoValidationException"
    ELSE "AttributeError"

\* `m.key = value`: MutableObject.__setattr__, with the object, the slot
\* table and the locked set it leaves.
\* proto_db: as MutableObject_setattr, after the test of self.transaction.
\* proto_base: hasattr(self, key) first; for hash_key ordinary lookup finds
\* it and the assignment is made on the object; for any other name hasattr
\* is MutableObject.__getattr__.
MutableObject__setattr__(m, key, value) ==
    LET self == atom[m]
        Result(me, res) == [atom |-> me, result |-> res,
                            mutable_objects |-> tx[Owner].mutable_objects,
                            read_lock_objects |-> tx[Owner].read_lock_objects]
    IN IF lib = "proto_base"
       THEN IF key = "hash_key"
            THEN Result([self EXCEPT !.hash_key = value], "None")
            ELSE Result(self, MutableObject__getattr__(m, key))
       ELSE IF ~self.transaction THEN Result(self, "ProtoValidationException")
            ELSE LET out == MutableObject_setattr(Owner, self.hash_key,
                                                  self.atom_pointer # NoneV, key, value)
                 IN [atom |-> self, result |-> out.result,
                     mutable_objects |-> out.mutable_objects,
                     read_lock_objects |-> out.read_lock_objects]

mutableFrame == <<lib, attrs, wal, fetched, root, pushed, lock, thr, branches, finished, last>>

\* a call m.hash()
hash_call(m) ==
    /\ ret' = [op |-> "hash", name |-> m, result |-> MutableObject_hash(m)]
    /\ UNCHANGED <<atom, tx, mutableFrame>>

\* an expression `m.name`
mutable_read(m, name) ==
    /\ ret' = [op |-> "__getattr__", name |-> name,
               result |-> MutableObject__getattr__(m, name)]
    /\ UNCHANGED <<atom, tx, mutableFrame>>

\* a statement `m.key = value`
mutable_assign(m, key, value) ==
    /\ LET r == MutableObject__setattr__(m, key, value)
       IN /\ atom' = [atom EXCEPT ![m] = r.atom]
          /\ tx' = [tx EXCEPT ![Owner].mutable_objects = r.mutable_objects,
                              ![Owner].read_lock_objects = r.read_lock_objects]
          /\ ret' = [op |-> "__setattr__", name |-> key, result |-> r.result]
    /\ UNCHANGED mutableFrame

NextMutable ==
    \/ \E m \in Mutables : hash_call(m)
    \/ \E m \in Mutables, name \in AttrNames : mutable_read(m, name)
    \/ \E m \in Mutables, key \in AttrNames, value \in Values : mutable_assign(m, key, value)
    \/ \E m \in Mutables, value \in HashKeys : mutable_assign(m, "hash_key", value)

SpecMutable == InitMutable /\ [][NextMutable]_vars

(***************************************************************************)
(* The wire encoding of attribute values (proto_db): _dict_to_json on the  *)
(* save side, _json_to_dict on the load side.  A Python value is its type  *)
(* and its content as numbers: a str, bytes, int or float by a number that *)
(* stands for it, a bool by 0 or 1, a datetime by <<day, second>>, a date  *)
(* by <<day>>, a timedelta by its normal form <<days, seconds,             *)
(* microseconds>>, a saved atom by its pointer <<transaction_id, offset>>, *)
(* its type being the name of its class.                                   *)
(***************************************************************************)
\* the classes AtomMetaclass registers: every Atom subclass, not Atom itself
atom_class_registry ==
    {"RootObject", "DBObject", "MutableObject", "DBCollections", "QueryPlan", "Literal",
     "BytesAtom"}
Py(type, val) == [type |-> type, val |-> val]

\* db_access.BytesAtom(content=value) and its _save(): the content goes to
\* a blob atom of its own, and the attribute keeps the pointer to it; read
\* back through the registry, the blob atom stands for the same content
BytesAtom_save(content) == [className |-> "BytesAtom", kind |-> "pointer", payload |-> content]
BytesAtom_read(pointer) == Py("bytes", pointer)

PyValues ==
    {Py("str", <<1>>), Py("str", <<2>>),
     Py("int", <<0>>), Py("int", <<7>>),
     Py("float", <<15>>),
     Py("bool", <<0>>), Py("bool", <<1>>),
     Py("None", <<>>),
     Py("datetime", <<19000, 0>>), Py("datetime", <<19000, 61>>),
     Py("date", <<19000>>),
     Py("timedelta", <<0, 0, 5>>), Py("timedelta", <<0, 1, 0>>), Py("timedelta", <<1, 0, 5>>),
     Py("bytes", <<3>>),
     Py("RootObject", <<1, 1>>), Py("Atom", <<1, 2>>)}

\* a stored value: className is "" for a value stored as it is, else the
\* 'className' of the mapping; kind says what the payload is
Json(className, kind, payload) == [className |-> className, kind |-> kind, payload |-> payload]

\* one value through the isinstance chain of _dict_to_json.  A bool is an
\* int and leaves by that branch.  date stores the bound method
\* value.isoformat, not its result; timedelta stores value.microseconds,
\* the last component of the normal form.
dict_to_json_value(value) ==
    CASE value.type \in atom_class_registry \cup {"Atom"} ->
              Json(value.type, "pointer", value.val)
      [] value.type = "str" -> Json("", "str", value.val)
      [] value.type = "datetime" -> Json("datetime.datetime", "iso", value.val)
      [] value.type = "date" -> Json("datetime.date", "method", value.val)
      [] value.type = "timedelta" -> Json("datetime.timedelta", "microseconds", <<value.val[3]>>)
      [] value.type \in {"int", "bool"} -> Json("", value.type, value.val)
      [] value.type = "float" -> Json("", "float", value.val)
      [] value.type = "bytes" -> BytesAtom_save(value.val)
      [] value.type = "None" -> Json("None", "", <<>>)

\* Atom._dict_to_json(data)
dict_to_json(data) == [name \in DOMAIN data |-> dict_to_json_value(data[name])]

\* one value through _json_to_dict: the value, or the exception raised.
\* timedelta(microseconds=m) is put in normal form.
json_to_dict_value(j) ==
    LET value(v) == [value |-> v, exc |-> "None"]
        raise(e) == [value |-> Py("None", <<>>), exc |-> e]
    IN CASE j.className = "" -> value(Py(j.kind, j.payload))
         [] j.className = "datetime.datetime" ->
                IF j.kind = "iso" THEN value(Py("datetime", j.payload)) ELSE raise("TypeError")
         [] j.className = "datetime.date" ->
                IF j.kind = "iso" THEN value(Py("date", j.payload)) ELSE raise("TypeError")
         [] j.className = "datetime.timedelta" ->
                value(Py("timedelta", <<0, j.payload[1] \div 1000000, j.payload[1] % 1000000>>))
         [] j.className \in {"int", "float", "bool"} -> value(Py(j.className, j.payload))
         [] j.className = "None" -> value(Py("None", <<>>))
         [] j.className = "BytesAtom" -> value(BytesAtom_read(j.payload))
         [] j.className \in atom_class_registry -> value(Py(j.className, j.payload))
         [] OTHER -> raise("ProtoValidationException")

\* Atom._json_to_dict(json_data): the mapping built, or the first exception
json_to_dict(json_data) ==
    LET failed == {name \in DOMAIN json_data : json_to_dict_value(json_data[name]).exc # "None"}
    IN IF failed = {}
       THEN [data |-> [name \in DOMAIN json_data |-> json_to_dict_value(json_data[name]).value],
             exc |-> "None"]
       ELSE [data |-> EmptyDict,
             exc |-> json_to_dict_value(json_data[CHOOSE name \in failed : TRUE]).exc]

\* an atom with attributes in AttrNames, not saved yet; atom holds the
\* attributes of the atoms loaded from the stored forms
InitWire ==
    /\ root = new_database_body(NoneV, "a").root
    /\ pushed = 1 /\ lock = {}
    /\ thr = [th \in Threads |-> IdleThread]
    /\ branches = EmptyDict
    /\ finished = <<>> /\ last = NoCall
    /\ tx = [t \in TxIds |-> IF t = Owner THEN ObjectTransaction("a", EmptyDict) ELSE NoTx]
    /\ lib = "proto_db"
    /\ attrs \in [AttrNames -> PyValues]
    /\ atom = <<>>
    /\ wal = <<>>
    /\ fetched = <<>>
    /\ ret = NoCall

\* the save side: the stored form of the attributes is pushed
wire_save ==
    /\ wal = <<>>
    /\ wal' = Append(wal, dict_to_json(attrs))
    /\ ret' = [op |-> "_dict_to_json", name |-> "", result |-> "None"]
    /\ UNCHANGED <<lib, attrs, atom, fetched, catalogVars>>

\* the load side, on a fresh atom: the stored form is fetched and decoded
wire_load ==
    /\ wal # <<>> /\ fetched = <<>>
    /\ LET r == json_to_dict(wal[1])
       IN /\ atom' = <<r.data>>
          /\ ret' = [op |-> "_json_to_dict", name |-> "", result |-> r.exc]
    /\ fetched' = <<1>>
    /\ UNCHANGED <<lib, attrs, wal, catalogVars>>

NextWire == wire_save \/ wire_load

SpecWire == InitWire /\ [][NextWire]_vars

(***************************************************************************)
(* Claims                                                                  *)
(***************************************************************************)
\* the step in which commit() of t returns / abort() of t returns / t is opened
CommitStep(t) == tx[t].status = "open" /\ tx'[t].status = "committed"
AbortStep(t) == tx[t].status = "open" /\ tx'[t].status = "aborted"
OpenStep(t) == tx[t].status = "none" /\ tx'[t].status = "open"
\* the step in which the body of thread th's call op runs
EndStep(th, op) == InBody(th, op) /\ thr'[th].pc = "idle"

\* C1 (as claimed): two transactions opened on the same committed root of one
\* database both wrote slot s through a persisted MutableObject; once the
\* first has committed, commit() of the second does not return normally.
C1_LateWriterFails ==
    \A t1 \in TxIds, t2 \in TxIds :
        ( /\ t1 # t2
          /\ tx[t1].status = "committed"
          /\ tx[t2].status # "none"
          /\ tx[t1].db = tx[t2].db
          /\ tx[t1].initial_transaction_root = tx[t2].initial_transaction_root
          /\ tx[t1].began = 0 /\ tx[t2].began = 0
          /\ tx[t1].wrote \cap tx[t2].wrote # {}
          /\ finished[1] = t1 )
        => tx[t2].status # "committed"

\* C2: a commit() run while some locked object differs from the value now
\* committed for it leaves the storage root (catalog and database roots) and
\* the pushed atoms as they were.
C2_StaleCommitLeavesStorage ==
    [][\A t \in TxIds :
          (CommitStep(t) /\ StaleLock(t)) => (root' = root /\ pushed' = pushed)]_vars

C2_Witness ==
    \E t \in TxIds : tx[t].status = "committed" /\ tx[t].stale

\* C3 (as claimed): when commit() returns, the committed root of the
\* transaction's database maps every name it staged to the staged value.
C3_CommitPublishesRoots ==
    [][\A t \in TxIds :
          CommitStep(t) =>
              \A n \in DOMAIN tx[t].transaction_root :
                  /\ Has(Catalog', tx[t].db)
                  /\ GetAt(Catalog'[tx[t].db], n) = Some(tx[t].transaction_root[n])]_vars

\* C4 (as claimed): a transaction just returned by new_transaction() reads,
\* under every root name of the database's committed root, the committed value.
C4_PinnedToCommittedRoot ==
    [][\A t \in TxIds :
          OpenStep(t) =>
              \A n \in RootNames \cap DOMAIN Catalog[tx'[t].db] :
                  get_root_object(t, n)' = Some(Catalog[tx'[t].db][n])]_vars

\* C5: staging roots, interning literals, writing mutable slots and abort()
\* leave the storage root and the pushed atoms unchanged, and a transaction
\* opened afterwards reads only committed data: none of its root names, locked
\* objects or pending literals comes from another transaction.
C5_AbortLeavesStorage ==
    [][\A t \in TxIds :
          /\ (tx[t].status = "open" /\ tx'[t] # tx[t] /\ ~CommitStep(t))
                => (root' = root /\ pushed' = pushed)
          /\ OpenStep(t) =>
                /\ \A n \in RootNames :
                      get_root_object(t, n)' \in {NoneV, GetAt(Catalog[tx'[t].db], n)}
                /\ tx'[t].new_literals = EmptyDict
                /\ tx'[t].read_lock_objects = EmptyDict]_vars

C5_Witness ==
    \E t1 \in TxIds, t2 \in TxIds :
        /\ tx[t1].status = "aborted"
        /\ tx[t1].transaction_root # EmptyDict
        /\ finished[1] = t1
        /\ tx[t2].status = "open"
        /\ tx[t2].began >= 1
        /\ tx[t2].db = tx[t1].db

\* C6 (as claimed): for a branch b returned by new_branch_database() on
\* origin o, a commit on o leaves b's committed root as it is, and a commit
\* on b leaves o's committed root as it is.
C6_BranchIsolation ==
    [][\A b \in DOMAIN branches, r \in NewRoots :
          LET o == branches[b].origin
          IN /\ commit_database(o, r) =>
                    /\ Has(Catalog, b) /\ Has(Catalog', b)
                    /\ Catalog'[b] = Catalog[b]
             /\ commit_database(b, r) => GetAt(Catalog', o) = GetAt(Catalog, o)]_vars

\* C7 (as claimed): when new_branch_database() returns the new Database, the
\* catalog holds it under its own name, with the root the origin had at the call.
C7_BranchSharesOriginRoot ==
    [][\A o \in DbNames, bn \in BranchNames :
          (new_branch_database(o, bn) /\ last'.result = "Database")
              => GetAt(Catalog', bn) = GetAt(Catalog, o)]_vars

\* C8: new_database(name) for a name the catalog already holds raises
\* ProtoValidationException and leaves the storage root unchanged.
C8_DuplicateNameRejected ==
    [][\A th \in Threads :
          (EndStep(th, "new_database") /\ Has(Catalog, thr[th].name))
              => (last'.result = "ProtoValidationException" /\ root' = root)]_vars

C8_Witness ==
    /\ last.op = "new_database"
    /\ last.result = "ProtoValidationException"
    /\ Has(Catalog, last.name)
    /\ Catalog[last.name] # EmptyDict

\* C9: new_database(name) for a name the catalog does not hold (or with no
\* root yet) returns a Database; afterwards the catalog is the old one plus
\* name -> empty root, and open_database(name) succeeds on it.
C9_NewDatabaseCreated ==
    [][\A th \in Threads :
          (EndStep(th, "new_database") /\ ~Has(Catalog, thr[th].name))
              => /\ last'.result = "Database"
                 /\ Catalog' = SetAt(Catalog, thr[th].name, EmptyDict)
                 /\ open_database_body(root', thr[th].name).result = "Database"]_vars

C9_Witness ==
    /\ last.op = "new_database"
    /\ last.result = "Database"
    /\ Cardinality(DOMAIN Catalog) = 2
    /\ \E n \in DOMAIN Catalog : Catalog[n] # EmptyDict

\* The outcome of thread th's call had it run alone on the current root
Serial(th) ==
    LET c == thr[th]
    IN CASE c.op = "open_database" -> open_database_body(root, c.name)
         [] c.op = "new_database" -> new_database_body(root, c.name)
         [] c.op = "rename_database" -> rename_database_body(root, c.name, c.name2)
         [] c.op = "commit_database" -> commit_database_body(root, c.name, c.new_root)
         [] OTHER -> BranchOutcome(commit_database_body(root, c.name, c.new_root))

\* C10: catalog operations are serialized: at most one thread is inside the
\* lock, and each call's body leaves the root and the outcome that the call
\* gives when run alone on the root as it is at that moment, so any
\* interleaving equals the calls run one after another in the order their
\* bodies ran.  A new_database never drops a name another call entered, and
\* succeeds exactly when its name is not yet in the catalog.
C10_CatalogSerialized ==
    [][/\ Cardinality(lock') <= 1
       /\ \A th \in Threads :
            /\ (thr[th].pc = "locked" /\ thr'[th].pc = "idle")
                  => (root' = Serial(th).root /\ last'.result = Serial(th).result)
            /\ EndStep(th, "new_database")
                  => /\ DOMAIN Catalog' = DOMAIN Catalog \cup {thr[th].name}
                     /\ last'.result = "Database" <=> ~Has(Catalog, thr[th].name)]_vars

C10_Witness ==
    \E p \in Threads, q \in Threads :
        /\ thr[p].pc = "locked" /\ thr[p].op = "new_database"
        /\ thr[q].pc = "called" /\ thr[q].op = "new_database"
        /\ thr[p].name = thr[q].name
        /\ ~Has(Catalog, thr[p].name)
        /\ Catalog # EmptyDict

\* C11: open_database(name) returns a Database exactly when the catalog holds
\* name, and raises ProtoValidationException otherwise (also with no root
\* yet); either way the storage root and the pushed atoms are unchanged.
C11_OpenDatabase ==
    [][\A th \in Threads :
          EndStep(th, "open_database") =>
              /\ last'.result = "Database" <=> Has(Catalog, thr[th].name)
              /\ last'.result \in {"Database", "ProtoValidationException"}
              /\ root' = root /\ pushed' = pushed]_vars

C11_Witness ==
    /\ last.op = "open_database"
    /\ last.result = "Database"
    /\ \E n \in DbNames : ~Has(Catalog, n)

\* C12 (as claimed): rename_database(old, new) with old in the catalog
\* returns without raising, and afterwards the catalog has no entry old and
\* maps new to the root old had.
C12_RenameMovesEntry ==
    [][\A th \in Threads :
          (EndStep(th, "rename_database") /\ Has(Catalog, thr[th].name)) =>
              /\ last'.result = "None"
              /\ GetAt(Catalog', thr[th].name2) = GetAt(Catalog, thr[th].name)
              /\ thr[th].name2 # thr[th].name => ~Has(Catalog', thr[th].name)]_vars

\* C13: with a root in storage and name absent from the catalog,
\* new_transaction() on a Database of that name returns None and opens no
\* transaction, and commit_database under that name raises
\* ProtoValidationException; neither changes the storage root.
C13_StaleHandle ==
    [][\A n \in AllNames :
          (root # NoneV /\ ~Has(Catalog, n)) =>
              /\ \A t \in TxIds :
                    new_transaction(t, n) =>
                        (last'.result = "None" /\ tx' = tx /\ root' = root)
              /\ \A r \in NewRoots :
                    commit_database(n, r) =>
                        /\ last'.result = "ProtoValidationException"
                        /\ root' = root /\ pushed' = pushed]_vars

\* a transaction opened through the handle is still open, the name has since
\* been renamed away, and new_transaction() on the handle has just returned None
C13_Witness ==
    \E t \in TxIds :
        /\ tx[t].status = "open"
        /\ ~Has(Catalog, tx[t].db)
        /\ last = [op |-> "new_transaction", name |-> tx[t].db, result |-> "None"]

\* the atoms among a's attribute values, and everything reachable from them
Children(a) == {attrs[a][i] : i \in 1..Len(attrs[a])} \cap Atoms
RECURSIVE Reach(_, _)
Reach(S, n) ==
    IF n = 0 THEN S ELSE Reach(S \cup UNION {Children(c) : c \in S}, n - 1)
Descendants(a) == Reach(Children(a), Cardinality(Atoms))
Acyclic == \A a \in Atoms : a \notin Descendants(a)
\* how often atom a was pushed
PushCount(a) == Cardinality({i \in DOMAIN wal : wal[i].atom = a})

\* C14: once an atom's pointer is set, no _save or _load, on it or on an atom
\* that references it, changes the pointer.
C14_PointerSetOnce ==
    [][\A a \in Atoms :
          atom[a].atom_pointer # NoneV => atom'[a].atom_pointer = atom[a].atom_pointer]_vars

\* atom a got its pointer from a push, a parent of it was saved too, it was
\* loaded, and _save has just been called on it again
C14_Witness ==
    \E a \in Atoms, p \in Atoms :
        /\ a \in Children(p)
        /\ PushCount(a) = 1 /\ PushCount(p) = 1
        /\ atom[a].loaded
        /\ ret = [op |-> "_save", name |-> a, result |-> "None"]

\* C15: no atom is pushed more than once; a _save on an atom whose pointer
\* is set pushes nothing; and (proto_db) once two parents of an atom that was
\* not stored before have been pushed, that atom has been pushed exactly once.
C15_PushedAtMostOnce ==
    [][/\ \A a \in Atoms : PushCount(a)' <= 1
       /\ \A a \in Atoms, fail \in Atoms \cup {"none"} :
             (save(a, fail) /\ atom[a].atom_pointer # NoneV) => wal' = wal
       /\ lib = "proto_db" =>
             \A c \in Atoms, p1 \in Atoms, p2 \in Atoms :
                 ( /\ p1 # p2 /\ c \in Children(p1)' \cap Children(p2)'
                   /\ PushCount(p1)' = 1 /\ PushCount(p2)' = 1
                   /\ atom'[c].atom_pointer \notin {Some(q) : q \in StoredPointers} )
                 => PushCount(c)' = 1]_vars

C15_Witness ==
    \E c \in Atoms, p1 \in Atoms, p2 \in Atoms :
        /\ lib = "proto_db"
        /\ p1 # p2 /\ c \in Children(p1) \cap Children(p2)
        /\ PushCount(p1) = 1 /\ PushCount(p2) = 1 /\ PushCount(c) = 1
        /\ ret = [op |-> "_save", name |-> c, result |-> "None"]

\* C16 (as claimed): in an acyclic graph, every form pushed references, for
\* each Atom-valued attribute, a pointer that was stored before or that an
\* earlier push returned.
C16_PostOrder ==
    Acyclic =>
        \A i \in DOMAIN wal :
            \A j \in DOMAIN wal[i].refs :
                /\ wal[i].refs[j] # NoneV
                /\ \/ wal[i].refs[j][1] \in StoredPointers
                   \/ \E k \in 0..(i - 2) : wal[i].refs[j][1] = AtomPointer("w1", k)

\* C17: _save on an atom with no pointer and no transaction raises
\* ProtoValidationException, pushes nothing and changes no atom.
C17_SaveNeedsTransaction ==
    [][\A a \in Atoms, fail \in Atoms \cup {"none"} :
          (save(a, fail) /\ atom[a].atom_pointer = NoneV /\ ~atom[a].transaction)
              => /\ ret'.result = "ProtoValidationException"
                 /\ wal' = wal /\ atom' = atom]_vars

C17_Witness ==
    \E a \in Atoms :
        /\ ret = [op |-> "_save", name |-> a, result |-> "ProtoValidationException"]
        /\ atom[a].atom_pointer = NoneV /\ ~atom[a].transaction
        /\ wal # <<>>

\* C18 (as claimed): the first _load of an unloaded atom that has a
\* transaction and a pointer, whatever its offset, fetches that pointer once
\* and marks the atom loaded; a _load of a loaded atom fetches nothing and
\* changes no atom.
C18_LoadIdempotent ==
    [][\A a \in Atoms :
          load(a) =>
              IF atom[a].loaded
              THEN fetched' = fetched /\ atom' = atom
              ELSE (atom[a].transaction /\ atom[a].atom_pointer # NoneV)
                      => /\ fetched' = Append(fetched, atom[a].atom_pointer[1])
                         /\ atom'[a].loaded]_vars

\* C19 (as claimed): _load of an unloaded atom that has a pointer and no
\* transaction raises ProtoValidationException and leaves it unloaded.
C19_LoadNeedsTransaction ==
    [][\A a \in Atoms :
          (load(a) /\ ~atom[a].loaded /\ atom[a].atom_pointer # NoneV
                   /\ ~atom[a].transaction)
              => (ret'.result = "ProtoValidationException" /\ ~atom'[a].loaded)]_vars

\* C20 (as claimed): a call b = a._setattr(k, v) leaves the receiver as it
\* was: for every DBObject a, name k and value v, the table of a's
\* attributes after the call is the table before it.
C20_ReceiverUnchanged ==
    [][\A o \in Objects :
          (\/ \E name \in AttrNames, value \in Values : setattr_call(o, name, value)
           \/ \E name \in InternalNames, value \in AttrTables :
                 setattr_call(o, name, value))
          => atom'[o].attributes = atom[o].attributes]_vars

\* C21 (as claimed): a call b = a._setattr(k, v) returns a new DBObject,
\* distinct from a, whose attributes are those of a with k reading v.
C21_ReturnsNewObject ==
    [][\A o \in Objects, name \in AttrNames, value \in Values :
          setattr_call(o, name, value)
          => \E b \in (DOMAIN atom') \ (DOMAIN atom) :
                atom'[b].attributes = SetAt(atom[o].attributes, name, value)]_vars

\* C22 (as claimed): a direct assignment `a.k = v` on a DBObject, for a
\* user attribute name k the object has or has not, fails with a validation
\* error and leaves the object's attributes as they were.
C22_AssignmentForbidden ==
    [][\A o \in Objects, key \in AttrNames, value \in Values :
          assign(o, key, value)
          => /\ ret'.result = "ProtoValidationException"
             /\ atom'[o].attributes = atom[o].attributes
             /\ atom'[o].dict = atom[o].dict]_vars

\* the value object o holds for name: None, or <<value>>
Held(o, name) ==
    IF Has(atom[o].dict, name) THEN Some(atom[o].dict[name])
    ELSE IF Has(atom[o].attributes, name) THEN Some(atom[o].attributes[name])
    ELSE NoneV

\* C23 (as claimed): reading an attribute a DBObject does not have returns
\* None without raising, loaded or not; reading one it has returns its value.
C23_ReadNeverRaises ==
    [][\A o \in Objects, name \in AttrNames :
          read(o, name)
          => ret'.result = (IF Held(o, name) = NoneV THEN "None" ELSE Held(o, name)[1])]_vars

\* C24 (as claimed): DBObject(...) with an attribute mapping that has a name
\* starting with '_' is rejected with a corruption error.
C24_ReservedNameRejected ==
    [][\A m \in CtorTables :
          (new_object(m) /\ Reserved(m) # {})
          => ret'.result = "ProtoCorruptionException"]_vars

\* C25 (as claimed): a write through a MutableObject that has a persisted
\* pointer registers the pre-write snapshot of its slot in the transaction's
\* locked set under its hash_key; a write through one that has no persisted
\* pointer leaves the locked set as it was.
C25_ReadCapture ==
    [][\A t \in TxIds, h \in Slots, value \in Values :
          /\ mutable_write(t, h, TRUE, value)
                => /\ Has(tx'[t].read_lock_objects, h)
                   /\ Some(tx'[t].read_lock_objects[h]) = get_mutable(t, h)
          /\ mutable_write(t, h, FALSE, value)
                => tx'[t].read_lock_objects = tx[t].read_lock_objects]_vars

\* C26 (as claimed): hash() of a MutableObject returns its hash_key, and no
\* attribute write through the MutableObject changes the hash_key.
C26_StableIdentity ==
    [][\A m \in Mutables :
          /\ hash_call(m) => ret'.result = atom[m].hash_key
          /\ (\E key \in AttrNames \cup {"hash_key"}, value \in Values \cup HashKeys :
                 mutable_assign(m, key, value))
                => atom'[m].hash_key = atom[m].hash_key]_vars

\* C27 (as claimed): a read or a write of an attribute through a
\* MutableObject that has no owning transaction fails with a validation
\* error and changes no slot table.
C27_MutableNeedsTransaction ==
    [][\A m \in Mutables, name \in AttrNames :
          (/\ ~atom[m].transaction
           /\ \/ mutable_read(m, name)
              \/ \E value \in Values : mutable_assign(m, name, value))
          => (ret'.result = "ProtoValidationException" /\ tx' = tx)]_vars

\* the committed literal catalog has a Literal for string s
CommittedLiteral(s) == root # NoneV /\ Has(root[1].literal_root, s)

\* C28 (as claimed): get_literal(s) in a transaction returns a Literal: the
\* committed one when the catalog has it, else the one its pending table
\* holds for s, which the first call stages and later calls leave in place.
C28_GetLiteralDeduplicates ==
    [][\A t \in TxIds, s \in LiteralStrings :
          get_literal_call(t, s)
          => /\ last'.result = "Literal"
             /\ CommittedLiteral(s) \/ Has(tx'[t].new_literals, s)
             /\ (CommittedLiteral(s) \/ Has(tx[t].new_literals, s))
                    => tx'[t].new_literals = tx[t].new_literals]_vars

\* C29 (as claimed): when the transactions that interned string s, each
\* opened before any had finished, have all committed, the committed
\* literal catalog holds a Literal for s.
C29_OneCommittedLiteral ==
    \A s \in LiteralStrings :
        (\A t \in TxIds : /\ tx[t].status = "committed"
                           /\ tx[t].began = 0
                           /\ s \in tx[t].interned)
        => CommittedLiteral(s)

\* C30 (as claimed): every attribute value (str, int, float, bool, None,
\* datetime, date, timedelta, bytes, saved Atom) encoded by _dict_to_json and
\* decoded by _json_to_dict is the value it was: the atom loaded from the
\* stored form has the attributes of the atom that was saved.
C30_WireRoundTrip ==
    [][wire_load => (ret'.result = "None" /\ atom' = <<attrs>>)]_vars

\* C31 (as claimed): for two atoms a and b, a == b evaluates without error,
\* to true exactly when both pointers are set and have the same
\* transaction_id and offset.
C31_AtomEquality ==
    [][\A a \in Atoms : \A b \in Atoms \ {a} :
          eq(a, b)
          => ret'.result =
                (IF atom[a].atom_pointer # NoneV /\ atom[a].atom_pointer = atom[b].atom_pointer
                 THEN "True" ELSE "False")]_vars

\* C32: set_root_object(n, v) stages only in the working root of its own
\* transaction: afterwards get_root_object(n) there returns v and every other
\* name reads as before, and the storage root and every other transaction
\* are as they were.
C32_RootStagedLocally ==
    [][\A t \in TxIds, n \in StagedNames, v \in Values :
          set_root_object(t, n, v)
          => /\ get_root_object(t, n)' = Some(v)
             /\ \A k \in StagedNames \ {n} : get_root_object(t, k)' = get_root_object(t, k)
             /\ root' = root
             /\ \A u \in TxIds \ {t} : tx'[u] = tx[u]]_vars

\* two open transactions of one database, one of which staged both names
\* while the other staged none
C32_Witness ==
    \E t \in TxIds, u \in TxIds :
        /\ t # u /\ tx[t].status = "open" /\ tx[u].status = "open"
        /\ DOMAIN tx[t].transaction_root = StagedNames
        /\ tx[u].transaction_root = EmptyDict
        /\ Catalog[tx[t].db] # EmptyDict

\* C33 (as claimed): a write attr = v through a MutableObject of a
\* transaction, with hash_key h, returns, after which get_mutable(h) gives a
\* snapshot (the one in which attr is v), while the slots of the other keys
\* are as they were.
C33_ReadYourWrites ==
    [][\A m \in Mutables, key \in AttrNames, value \in Values :
          (atom[m].transaction /\ mutable_assign(m, key, value))
          => /\ ret'.result = "None"
             /\ get_mutable(Owner, atom[m].hash_key)' # NoneV
             /\ \A h \in HashKeys \ {atom[m].hash_key} :
                    get_mutable(Owner, h)' = get_mutable(Owner, h)]_vars

\* C34 (as claimed): in proto_db, _save on an atom of a transaction that
\* lies on a cycle of atoms none of which is saved fails with a validation
\* error, and pushes no form that references an atom without a pointer.
C34_CycleFailsFast ==
    [][\A a \in Atoms :
          (/\ lib = "proto_db" /\ save(a, "none")
           /\ a \in Descendants(a) /\ atom[a].transaction
           /\ \A c \in Descendants(a) : atom[c].atom_pointer = NoneV /\ ~atom[c].saved)
          => /\ ret'.result = "ProtoValidationException"
             /\ \A i \in (DOMAIN wal') \ (DOMAIN wal) :
                    \A j \in DOMAIN wal'[i].refs : wal'[i].refs[j] # NoneV]_vars


\* C35 (as claimed): new_branch_database() leaves the origin untouched: every
\* name the catalog held before the call, the origin included, maps to the
\* same database root after it.
C35_BranchLeavesOrigin ==
    [][\A o \in DbNames, bn \in BranchNames :
          new_branch_database(o, bn) =>
              \A n \in DOMAIN Catalog : GetAt(Catalog', n) = GetAt(Catalog, n)]_vars

\* C36: commit_database(name, new_root) with name in the catalog returns
\* None and maps name to new_root; the catalog keeps its names, every other
\* name keeps the root it has when the body runs (so what another thread
\* committed meanwhile under another name is kept), and the literal root is
\* unchanged.
C36_CommitFrame ==
    [][\A th \in Threads :
          (EndStep(th, "commit_database") /\ Has(Catalog, thr[th].name)) =>
              /\ last'.result = "None"
              /\ DOMAIN Catalog' = DOMAIN Catalog
              /\ Catalog'[thr[th].name] = thr[th].new_root
              /\ \A n \in DOMAIN Catalog \ {thr[th].name} : Catalog'[n] = Catalog[n]
              /\ root'[1].literal_root = root[1].literal_root]_vars

\* two threads are committing non-empty roots to different databases of the
\* catalog at the same time: one is inside the lock, the other waits for it
C36_Witness ==
    \E p \in Threads, q \in Threads :
        /\ thr[p].pc = "locked" /\ thr[p].op = "commit_database"
        /\ thr[q].pc = "called" /\ thr[q].op = "commit_database"
        /\ thr[p].name # thr[q].name
        /\ Has(Catalog, thr[p].name) /\ Has(Catalog, thr[q].name)
        /\ thr[p].new_root # EmptyDict /\ thr[q].new_root # EmptyDict

\* C37 (as claimed): rename_database(old, new) leaves the entry of a
\* database other than old that the catalog holds under new as it is; with
\* old absent it raises ProtoValidationException and the root is unchanged.
C37_RenameKeepsThird ==
    [][\A th \in Threads :
          EndStep(th, "rename_database") =>
              LET old == thr[th].name
                  new == thr[th].name2
              IN /\ (Has(Catalog, old) /\ new # old /\ Has(Catalog, new))
                        => GetAt(Catalog', new) = GetAt(Catalog, new)
                 /\ ~Has(Catalog, old)
                        => (last'.result = "ProtoValidationException" /\ root' = root)]_vars


C39_SaveSetsPointer ==
    [][\A a \in Atoms, fail \in Atoms \cup {"none"} :
          save(a, fail) =>
              /\ (atom[a].transaction /\ ret'.result = "None")
                    => atom'[a].atom_pointer # NoneV
              /\ (fail = a /\ ret'.result = "StorageError")
                    => NeedsSave(Heap(atom', wal'), a)]_vars

====
